---- MODULE Spec2Model ----
(***************************************************************************)
(* Model of rezarpeds/datastores/engine/storage.py: the Storage facade     *)
(* over one collection of a document database.  The Storage methods are    *)
(* translated line by line; the collaborators they call (bson.ObjectId and *)
(* the pymongo collection methods) are modelled by their documented        *)
(* behaviour on one collection, kept as the sequence of its documents in   *)
(* natural order.                                                          *)
(***************************************************************************)
EXTENDS Integers, Sequences, FiniteSets, TLC

VARIABLES coll, prev, last

vars == <<coll, prev, last>>

(***************************************************************************)
(* Bounds of the model.                                                    *)
(***************************************************************************)
\* documents a collection holds at most
MaxDocs == 2
\* skip and limit range over -MaxArg .. MaxArg
MaxArg == 2

\* bytes of an ObjectId (12 in bson, scaled down), two hex digits each
OidBytes == 1
OidHexLen == 2 * OidBytes

Fields == {"name"}
Vals == {1, 2}
\* characters of the key strings a caller passes; "g" is not a hex digit
Chars == {"0", "a", "A", "g"}

(***************************************************************************)
(* Values.                                                                 *)
(***************************************************************************)
None == [t |-> "none"]
Oid(v) == [t |-> "oid", v |-> v]
Str(s) == [t |-> "str", s |-> s]
IntKey(n) == [t |-> "int", n |-> n]
Bytes(b) == [t |-> "bytes", b |-> b]
Raise(kind) == [t |-> "error", kind |-> kind]

\* the errors the calls raise
Errors == {Raise(kind) : kind \in {"InvalidId", "TypeError", "ValueError",
                                    "WriteError", "DuplicateKeyError"}}
IsError(x) == x \in Errors

RECURSIVE SeqsOfLen(_, _)
SeqsOfLen(S, n) ==
    IF n = 0 THEN {<<>>}
    ELSE {Append(s, x) : s \in SeqsOfLen(S, n - 1), x \in S}

HexDigits == <<"0", "1", "2", "3", "4", "5", "6", "7",
               "8", "9", "a", "b", "c", "d", "e", "f">>
UpperDigits == <<"0", "1", "2", "3", "4", "5", "6", "7",
                 "8", "9", "A", "B", "C", "D", "E", "F">>

IsHexChar(c) == \E i \in 1..16 : HexDigits[i] = c \/ UpperDigits[i] = c

\* the value of one hexadecimal digit, either case (bytes.fromhex)
HexVal(c) == (CHOOSE i \in 1..16 : HexDigits[i] = c \/ UpperDigits[i] = c) - 1

\* the nibbles the model's key strings can denote
Nibbles == {HexVal(c) : c \in {d \in Chars : IsHexChar(d)}}
OidVals == SeqsOfLen(Nibbles, OidHexLen)
Oids == {Oid(v) : v \in OidVals}
\* the key strings a caller passes: every string of at most OidHexLen
\* characters, and one that is too long
Strings ==
    UNION {SeqsOfLen(Chars, n) : n \in 0..OidHexLen}
        \cup {[i \in 1..(OidHexLen + 1) |-> "0"]}

isinstance_ObjectId(key) == key.t = "oid"

\* the two hexadecimal digits of each byte
NibblesOf(b) == [i \in 1..(2 * Len(b)) |-> IF i % 2 = 1 THEN b[(i + 1) \div 2] \div 16
                                                      ELSE b[i \div 2] % 16]

\* bson.ObjectId(oid): None generates a new identifier (gen), OidBytes bytes
\* are taken as they are, an ObjectId is copied, a str must be OidHexLen
\* hexadecimal digits, anything else is a TypeError.
ObjectId(key, gen) ==
    CASE key.t = "none" -> gen
      [] key.t = "bytes" /\ Len(key.b) = OidBytes -> Oid(NibblesOf(key.b))
      [] key.t = "oid" -> key
      [] key.t = "str" ->
            IF Len(key.s) = OidHexLen /\ \A i \in 1..Len(key.s) : IsHexChar(key.s[i])
            THEN Oid([i \in 1..Len(key.s) |-> HexVal(key.s[i])])
            ELSE Raise("InvalidId")
      [] OTHER -> Raise("TypeError")

\* str(ObjectId): the lowercase hexadecimal digits
StrOfOid(key) == Str([i \in 1..Len(key.v) |-> HexDigits[key.v[i] + 1]])

\* the test of _wrap_oid inverted: a string is passed on as it is
_wrap_oid_Inverted(key, gen) ==
    IF isinstance_ObjectId(key) THEN ObjectId(key, gen) ELSE key

\* the identifier's error swallowed: an invalid key is passed on as it is
_wrap_oid_Swallow(key, gen) ==
    IF isinstance_ObjectId(key) THEN key
    ELSE IF IsError(ObjectId(key, gen)) THEN key ELSE ObjectId(key, gen)

_wrap_oid(key, gen) ==
    IF ~isinstance_ObjectId(key) THEN ObjectId(key, gen) ELSE key

_unwrap_oid(key) ==
    IF isinstance_ObjectId(key) THEN StrOfOid(key) ELSE key

(***************************************************************************)
(* Documents: functions from field names to values; "_id" holds the key.   *)
(***************************************************************************)
Bodies == UNION {[D -> Vals] : D \in SUBSET Fields}
WithId(body, id) == body @@ ("_id" :> id)
HasId(doc) == "_id" \in DOMAIN doc
BodyOf(doc) == [f \in (DOMAIN doc) \ {"_id"} |-> doc[f]]
\* what a caller passes as data: a body, with or without a key of its own
Datas == Bodies \cup {WithId(b, id) : b \in Bodies, id \in Oids}
\* the keys a caller passes: identifiers, strings, and values of other types
Keys == Oids \cup {Str(s) : s \in Strings}
            \cup {None, IntKey(5), Bytes([i \in 1..OidBytes |-> 10]), Bytes(<<>>)}

\* the arguments of query a caller passes
Args == (0 - MaxArg)..MaxArg
List(s) == [t |-> "list", items |-> s]
Eq(f, v) == [t |-> "eq", f |-> f, v |-> v]
Sorts == {None, List(<<>>), List(<< <<"name", 1>> >>), List(<< <<"name", 0 - 1>> >>),
          List(<< <<"_id", 0 - 1>> >>)}
Wheres == {None, Eq("name", 1)}
Selects == {None, List(<<"_id">>)}

IdsOf(c) == {c[i]["_id"] : i \in 1..Len(c)}
Has(c, id) == id \in IdsOf(c)
IndexOf(c, id) == CHOOSE i \in 1..Len(c) : c[i]["_id"] = id
\* generated identifiers are unique: never one the collection holds
FreshOids(c) == Oids \ IdsOf(c)

(***************************************************************************)
(* The collection methods of the backing client (pymongo), on the          *)
(* collection c.  Each yields the value returned (or the error raised)     *)
(* and the collection afterwards.                                          *)
(***************************************************************************)
UpdateResult(m, n) == [t |-> "UpdateResult", matched_count |-> m, modified_count |-> n]
DeleteResult(n) == [t |-> "DeleteResult", deleted_count |-> n]
InsertOneResult(id) == [t |-> "InsertOneResult", inserted_id |-> id]

\* find_one({"_id": id}): the document with that key, or None
find_one(c, id) ==
    [out |-> IF Has(c, id) THEN c[IndexOf(c, id)] ELSE None, coll |-> c]

\* replace_one({"_id": id}, data): no upsert; the key of a document is
\* immutable, so a replacement carrying another key is a write error
replace_one(c, id, data) ==
    IF ~Has(c, id)
    THEN [out |-> UpdateResult(0, 0), coll |-> c]
    ELSE IF HasId(data) /\ data["_id"] # id
    THEN [out |-> Raise("WriteError"), coll |-> c]
    ELSE LET i == IndexOf(c, id)
             new == WithId(BodyOf(data), id)
         IN [out |-> UpdateResult(1, IF c[i] = new THEN 0 ELSE 1),
             coll |-> [c EXCEPT ![i] = new]]

\* delete_one({"_id": id})
delete_one(c, id) ==
    IF ~Has(c, id)
    THEN [out |-> DeleteResult(0), coll |-> c]
    ELSE LET i == IndexOf(c, id)
         IN [out |-> DeleteResult(1),
             coll |-> [j \in 1..(Len(c) - 1) |-> IF j < i THEN c[j] ELSE c[j + 1]]]

\* insert_one(data): a document without a key gets a generated one (gen);
\* a key the collection already holds is a duplicate-key error
insert_one(c, data, gen) ==
    LET doc == IF HasId(data) THEN data ELSE WithId(data, gen)
    IN IF Has(c, doc["_id"])
       THEN [out |-> Raise("DuplicateKeyError"), coll |-> c]
       ELSE [out |-> InsertOneResult(doc["_id"]), coll |-> Append(c, doc)]

(***************************************************************************)
(* Storage: the key-based methods.                                         *)
(***************************************************************************)
NoCall == [fn |-> "none"]

\* a method's outcome: the backing call it issued, what it returned or
\* raised, and the collection afterwards
Outcome(call, r) == [call |-> call, out |-> r.out, coll |-> r.coll]
Failed(c, err) == [call |-> NoCall, out |-> err, coll |-> c]

\* a partial update ($set) in place of the replacement: the old fields stay
update_by_key_Merge(c, key, data, gen) ==
    LET k == _wrap_oid(key, gen)
    IN IF IsError(k) THEN Failed(c, k)
       ELSE Outcome([fn |-> "replace_one", id |-> k],
                IF ~Has(c, k) THEN [out |-> UpdateResult(0, 0), coll |-> c]
                ELSE LET i == IndexOf(c, k)
                     IN [out |-> UpdateResult(1, 1),
                         coll |-> [c EXCEPT ![i] = WithId(BodyOf(data) @@ BodyOf(c[i]), k)]])

\* the replacement issued with upsert: an absent key is inserted
update_by_key_Upsert(c, key, data, gen) ==
    LET k == _wrap_oid(key, gen)
    IN IF IsError(k) THEN Failed(c, k)
       ELSE Outcome([fn |-> "replace_one", id |-> k],
                IF Has(c, k) THEN replace_one(c, k, data)
                ELSE [out |-> UpdateResult(0, 0),
                      coll |-> Append(c, WithId(BodyOf(data), k))])

update_by_key(c, key, data, gen) ==
    LET k == _wrap_oid(key, gen)
    IN IF IsError(k) THEN Failed(c, k)
       ELSE Outcome([fn |-> "replace_one", id |-> k], replace_one(c, k, data))

\* the filter dropped: the first document of the collection is deleted
delete_by_key_First(c, key, gen) ==
    LET k == _wrap_oid(key, gen)
    IN IF IsError(k) THEN Failed(c, k)
       ELSE Outcome([fn |-> "delete_one", id |-> k],
                IF c = <<>> THEN [out |-> DeleteResult(0), coll |-> c]
                ELSE [out |-> DeleteResult(1), coll |-> Tail(c)])

delete_by_key(c, key, gen) ==
    LET k == _wrap_oid(key, gen)
    IN IF IsError(k) THEN Failed(c, k)
       ELSE Outcome([fn |-> "delete_one", id |-> k], delete_one(c, k))

\* an absent key raised as an error instead of returned as None
get_by_key_Raises(c, key, gen) ==
    LET k == _wrap_oid(key, gen)
    IN IF IsError(k) THEN Failed(c, k)
       ELSE IF ~Has(c, k)
       THEN Outcome([fn |-> "find_one", id |-> k], [out |-> Raise("ValueError"), coll |-> c])
       ELSE Outcome([fn |-> "find_one", id |-> k], find_one(c, k))

get_by_key(c, key, gen) ==
    LET k == _wrap_oid(key, gen)
    IN IF IsError(k) THEN Failed(c, k)
       ELSE Outcome([fn |-> "find_one", id |-> k], find_one(c, k))

\* database and collection swapped: the document goes to another collection
create_WrongCollection(c, data, gen) ==
    [call |-> [fn |-> "insert_one"], out |-> insert_one(<<>>, data, gen).out, coll |-> c]

create(c, data, gen) ==
    Outcome([fn |-> "insert_one"], insert_one(c, data, gen))

(***************************************************************************)
(* The cursor of the backing client: find() builds it, sort() orders it,   *)
(* iterating it fetches the documents.                                     *)
(***************************************************************************)
Min(a, b) == IF a < b THEN a ELSE b
Abs(n) == IF n < 0 THEN 0 - n ELSE n
Range(s) == {s[i] : i \in 1..Len(s)}

\* Python's truth value of the sort argument: None and the empty list are false
Truthy(x) == x.t = "list" /\ Len(x.items) > 0

\* find(skip, limit, filter, projection): a negative skip is a ValueError
find(skip, limit, filter, projection) ==
    IF skip < 0 THEN Raise("ValueError")
    ELSE [t |-> "cursor", skip |-> skip, limit |-> limit, filter |-> filter,
          projection |-> projection, ordering |-> None]

\* Cursor.sort(sort)
cursor_sort(cur, sort) == [cur EXCEPT !.ordering = sort]

Matches(doc, filter) ==
    filter.t = "none" \/ (filter.f \in DOMAIN doc /\ doc[filter.f] = filter.v)

\* a projection keeps the listed fields and the key
Project(doc, projection) ==
    IF projection.t = "none" THEN doc
    ELSE [f \in (DOMAIN doc) \cap (Range(projection.items) \cup {"_id"}) |-> doc[f]]

RECURSIVE OidNum(_)
OidNum(v) == IF v = <<>> THEN 0 ELSE 16 * OidNum(SubSeq(v, 1, Len(v) - 1)) + v[Len(v)]

\* the rank of a document under one sort field: a missing field sorts as
\* null, before every number; keys sort by their bytes
KeyVal(doc, f) ==
    IF f \notin DOMAIN doc THEN 0 - 1
    ELSE IF f = "_id" THEN OidNum(doc[f].v) ELSE doc[f]

RECURSIVE InOrder(_, _, _)
\* d1 may come before d2 under the sort keys (equal documents in any order)
InOrder(d1, d2, keys) ==
    IF keys = <<>> THEN TRUE
    ELSE LET f == keys[1][1]
             dir == keys[1][2]
             a == KeyVal(d1, f) * dir
             b == KeyVal(d2, f) * dir
         IN a < b \/ (a = b /\ InOrder(d1, d2, Tail(keys)))

Perms(n) == {p \in [1..n -> 1..n] : \A i, j \in 1..n : i # j => p[i] # p[j]}

\* the orders the server may return the matched documents in: natural order
\* without a sort, any order the sort keys allow with one
Orders(docs, ordering) ==
    IF ordering.t = "none" THEN {docs}
    ELSE {[i \in 1..Len(docs) |-> docs[p[i]]] : p \in
            {q \in Perms(Len(docs)) :
                \A i \in 1..(Len(docs) - 1) :
                    InOrder(docs[q[i]], docs[q[i + 1]], ordering.items)}}

Matched(c, cur) == SelectSeq(c, LAMBDA d : Matches(d, cur.filter))

\* iterating the cursor over the matched documents in the order ord: skip,
\* then limit (0 is no limit, a negative limit counts as its absolute value),
\* then the projection
Fetch(cur, ord) ==
    LET skipped == SubSeq(ord, cur.skip + 1, Len(ord))
        n == IF cur.limit = 0 THEN Len(skipped) ELSE Min(Abs(cur.limit), Len(skipped))
    IN [i \in 1..n |-> Project(skipped[i], cur.projection)]

(***************************************************************************)
(* Storage.query: the cursor it returns.                                   *)
(***************************************************************************)
\* no clamping
Clamp_Identity(n) == n

Clamp(n) == IF n > 0 THEN n ELSE 0

\* skip and limit handed to find in each other's place
query_Swapped(skip, limit, sort, where, select) ==
    LET skip1 == Clamp(skip)
        limit1 == Clamp(limit)
        result == find(limit1, skip1, where, select)
    IN IF IsError(result) THEN result
       ELSE IF Truthy(sort) THEN cursor_sort(result, sort)
       ELSE result

query(skip, limit, sort, where, select) ==
    LET skip1 == Clamp(skip)
        limit1 == Clamp(limit)
        result == find(skip1, limit1, where, select)
    IN IF IsError(result) THEN result
       ELSE IF Truthy(sort) THEN cursor_sort(result, sort)
       ELSE result

Idle == [op |-> "idle"]

Init ==
    /\ coll = <<>>
    /\ prev = <<>>
    /\ last = Idle

\* a call runs to its end: the collection afterwards, the collection before
\* it, and the call with what it issued and returned
Step(op, r) ==
    /\ coll' = r.coll
    /\ prev' = coll
    /\ last' = op @@ [call |-> r.call, out |-> r.out]

UpdateByKey ==
    /\ last = Idle
    /\ \E key \in Keys, data \in Datas, gen \in FreshOids(coll) :
        Step([op |-> "update_by_key", key |-> key, data |-> data],
             update_by_key(coll, key, data, gen))

DeleteByKey ==
    /\ last = Idle
    /\ \E key \in Keys, gen \in FreshOids(coll) :
        Step([op |-> "delete_by_key", key |-> key],
             delete_by_key(coll, key, gen))

GetByKey ==
    /\ last = Idle
    /\ \E key \in Keys, gen \in FreshOids(coll) :
        Step([op |-> "get_by_key", key |-> key],
             get_by_key(coll, key, gen))

Create ==
    /\ last = Idle
    /\ Len(coll) < MaxDocs
    /\ \E data \in Datas, gen \in FreshOids(coll) :
          Step([op |-> "create", data |-> data], create(coll, data, gen))

\* query, and the caller iterating the cursor it returns
Query ==
    /\ last = Idle
    /\ \E skip \in Args, limit \in Args, sort \in Sorts, where \in Wheres, select \in Selects :
        LET cur == query(skip, limit, sort, where, select)
            op == [op |-> "query", skip |-> skip, limit |-> limit, sort |-> sort,
                   where |-> where, select |-> select]
        IN IF IsError(cur)
           THEN Step(op, Failed(coll, cur))
           ELSE \E ord \in Orders(Matched(coll, cur), cur.ordering) :
                    Step(op, [call |-> [fn |-> "find", cursor |-> cur],
                              out |-> List(Fetch(cur, ord)), coll |-> coll])

\* the caller takes the result; the next call finds the collection as it is
Return ==
    /\ last # Idle
    /\ last' = Idle
    /\ prev' = <<>>
    /\ UNCHANGED coll

Next ==
    \/ UpdateByKey
    \/ DeleteByKey
    \/ GetByKey
    \/ Create
    \/ Query
    \/ Return

Spec == Init /\ [][Next]_vars
(***************************************************************************)
(* The properties checked.  Each reads the call just made (last), the      *)
(* collection it found (prev) and the collection it left (coll).           *)
(***************************************************************************)
Max(a, b) == IF a > b THEN a ELSE b

\* a string of OidHexLen hexadecimal digits
ValidStr(key) ==
    /\ key.t = "str"
    /\ Len(key.s) = OidHexLen
    /\ \A i \in 1..Len(key.s) : IsHexChar(key.s[i])

\* a key in one of the two forms the interface takes
IsKey(key) == key.t = "oid" \/ ValidStr(key)

\* the identifier such a key denotes
IdOf(key) ==
    IF key.t = "oid" THEN key
    ELSE Oid([i \in 1..Len(key.s) |-> HexVal(key.s[i])])

ByKeyOps == {"get_by_key", "update_by_key", "delete_by_key"}
Called(op) == last.op = op
Raised == IsError(last.out)

\* the collection c without the document of key id, the others in place
Without(c, id) == SelectSeq(c, LAMBDA d : d["_id"] # id)

\* C1: whatever integers skip and limit query is called with, find receives
\* max(skip, 0) and max(limit, 0): a negative one becomes 0 without an
\* error, a non-negative one is passed on unchanged.
C1_ClampedSkipLimit ==
    Called("query") =>
        /\ ~Raised
        /\ last.call.fn = "find"
        /\ last.call.cursor.skip = Max(last.skip, 0)
        /\ last.call.cursor.limit = Max(last.limit, 0)

C1_Witness ==
    /\ Called("query")
    /\ last.skip < 0
    /\ last.limit < 0
    /\ last.call.fn = "find"
    /\ last.call.cursor.skip = 0
    /\ last.call.cursor.limit = 0

\* C2: get_by_key, update_by_key and delete_by_key called with the
\* canonical string of an identifier return what they return for the
\* identifier itself, issue the same call and leave the same collection;
\* wrapping an identifier returns it unchanged, so wrapping twice is
\* wrapping once.
C2_StringAsIdentifier ==
    /\ \A id \in Oids :
        (last.op \in ByKeyOps /\ last.key = StrOfOid(id)) =>
            \A gen \in Oids :
                LET r == CASE Called("get_by_key") -> get_by_key(prev, id, gen)
                           [] Called("update_by_key") ->
                                update_by_key(prev, id, last.data, gen)
                           [] Called("delete_by_key") -> delete_by_key(prev, id, gen)
                IN /\ last.out = r.out
                   /\ last.call = r.call
                   /\ coll = r.coll
    /\ \A id \in Oids, gen \in Oids : _wrap_oid(id, gen) = id
    /\ last.op \in ByKeyOps /\ IsKey(last.key) =>
        \A gen \in Oids :
            _wrap_oid(_wrap_oid(last.key, gen), gen) = _wrap_oid(last.key, gen)

C2_Witness ==
    /\ Called("update_by_key")
    /\ last.key.t = "str"
    /\ last.out = UpdateResult(1, 1)
    /\ Len(prev) > 1

Replaced ==
    LET K == IdOf(last.key)
        i == IndexOf(prev, K)
    IN /\ ~Raised
       /\ last.out.matched_count = 1
       /\ Len(coll) = Len(prev)
       /\ coll[i] = WithId(BodyOf(last.data), K)
       /\ DOMAIN coll[i] = (DOMAIN last.data) \cup {"_id"}
       /\ \A f \in (DOMAIN prev[i]) \ (DOMAIN last.data) : f = "_id" \/ f \notin DOMAIN coll[i]
       /\ \A gen \in Oids : get_by_key(coll, K, gen).out = WithId(BodyOf(last.data), K)
       /\ \A j \in 1..Len(prev) : j # i => coll[j] = prev[j]

UpdateOfExisting ==
    /\ Called("update_by_key")
    /\ IsKey(last.key)
    /\ Has(prev, IdOf(last.key))

\* C4 as stated: for every newDoc, update_by_key(K, newDoc) on an existing
\* key K replaces the whole content of that document.
C4_AlwaysReplaces == UpdateOfExisting => Replaced

\* C4, amended: update_by_key(K, newDoc) on an existing key K replaces the
\* whole content when newDoc carries no key field or carries K; when newDoc
\* carries another key the backing service refuses the write, the call
\* raises and the collection is unchanged.
C4_ReplacesUnlessKeyChanged ==
    UpdateOfExisting =>
        IF HasId(last.data) /\ last.data["_id"] # IdOf(last.key)
        THEN Raised /\ coll = prev
        ELSE Replaced

C4_Witness ==
    /\ UpdateOfExisting
    /\ ~Raised
    /\ Len(prev) > 1
    /\ \E f \in Fields : f \in DOMAIN prev[IndexOf(prev, IdOf(last.key))]
                            /\ f \notin DOMAIN last.data

\* C5: get_by_key(K) returns None, raising nothing, exactly when the
\* collection holds no document of key K, and otherwise the document
\* stored under K; either way the collection is unchanged.
C5_GetOrNone ==
    (Called("get_by_key") /\ IsKey(last.key)) =>
        LET K == IdOf(last.key)
        IN /\ ~Raised
           /\ last.out = None <=> ~Has(prev, K)
           /\ Has(prev, K) => last.out = prev[IndexOf(prev, K)] /\ last.out["_id"] = K
           /\ coll = prev

C5_Witness ==
    /\ Called("get_by_key")
    /\ IsKey(last.key)
    /\ last.out = None
    /\ Len(prev) > 0

\* C6: when the collection holds no document of key K, delete_by_key(K)
\* returns deleted count 0 and update_by_key(K, data) matched count 0;
\* neither raises, neither changes the collection, and update_by_key
\* inserts nothing.
C6_AbsentKeyNoEffect ==
    (last.op \in {"delete_by_key", "update_by_key"} /\ IsKey(last.key)
        /\ ~Has(prev, IdOf(last.key))) =>
        /\ ~Raised
        /\ Called("delete_by_key") => last.out.deleted_count = 0
        /\ Called("update_by_key") =>
                last.out.matched_count = 0 /\ last.out.modified_count = 0
        /\ coll = prev
        /\ ~Has(coll, IdOf(last.key))

C6_Witness ==
    /\ Called("update_by_key")
    /\ IsKey(last.key)
    /\ ~Has(prev, IdOf(last.key))
    /\ DOMAIN last.data # {}
    /\ Len(prev) > 0
    /\ last.out.matched_count = 0

\* C7: every document query and get_by_key return carries its key field
\* "_id" as a string, never as the native identifier.
C7_KeysReturnedAsStrings ==
    /\ (Called("query") /\ ~Raised) =>
            \A i \in 1..Len(last.out.items) : last.out.items[i]["_id"].t = "str"
    /\ (Called("get_by_key") /\ ~Raised /\ last.out # None) =>
            last.out["_id"].t = "str"

\* a key that is neither an identifier nor a valid canonical string
NotAKey(key) == ~IsKey(key)

RejectedUnissued ==
    /\ Raised
    /\ last.out.kind \in {"InvalidId", "TypeError"}
    /\ last.call = NoCall
    /\ coll = prev

\* C8 as stated: a by-key call with a key that is neither an identifier
\* nor a valid canonical string fails with a format error before anything
\* is issued, the collection unchanged.
C8_EveryNonKeyRejected ==
    (last.op \in ByKeyOps /\ NotAKey(last.key)) => RejectedUnissued

\* C8, amended: a by-key call with a string that is not a valid canonical
\* identifier string fails with the identifier's format error (InvalidId)
\* before anything is issued, the collection unchanged.
C8_InvalidStringRejected ==
    (last.op \in ByKeyOps /\ last.key.t = "str" /\ ~ValidStr(last.key)) =>
        /\ RejectedUnissued
        /\ last.out = Raise("InvalidId")

C8_Witness ==
    /\ Called("delete_by_key")
    /\ last.key.t = "str"
    /\ Len(last.key.s) = OidHexLen
    /\ ~ValidStr(last.key)
    /\ Len(prev) > 0
    /\ last.out = Raise("InvalidId")

\* the documents a call returned to the caller
Returned ==
    IF last = Idle \/ Raised THEN {}
    ELSE IF Called("query") THEN Range(last.out.items)
    ELSE IF Called("get_by_key") /\ last.out # None THEN {last.out}
    ELSE {}

DeleteOfExisting ==
    /\ Called("delete_by_key")
    /\ IsKey(last.key)
    /\ Has(prev, IdOf(last.key))

\* C9: delete_by_key(K) on an existing key K returns deleted count 1 and
\* removes that document alone, the others unchanged and in place; from
\* then on a key the collection does not hold is in no document a call
\* returns, and comes back only by a create that returns it.
C9_DeleteRemovesUntilCreated ==
    /\ [](DeleteOfExisting =>
            /\ ~Raised
            /\ last.out.deleted_count = 1
            /\ coll = Without(prev, IdOf(last.key))
            /\ Len(coll) = Len(prev) - 1
            /\ \A gen \in Oids : get_by_key(coll, last.key, gen).out = None)
    /\ [](\A d \in Returned : Has(prev, d["_id"]) /\ Has(coll, d["_id"]))
    /\ [][\A K \in Oids :
            (~Has(coll, K) /\ Has(coll', K)) =>
                (last'.op = "create" /\ last'.out = InsertOneResult(K))]_vars

C9_Witness ==
    /\ DeleteOfExisting
    /\ last.key.t = "str"
    /\ Len(prev) > 1
    /\ prev[1]["_id"] # IdOf(last.key)

\* C10: with no filter, query yields the documents of the collection in
\* the applicable order (natural order, or one the sort allows) with the
\* first max(skip, 0) dropped, all the rest when max(limit, 0) = 0 and the
\* first max(limit, 0) of the rest otherwise; it never changes the
\* collection.
C10_QueryWindow ==
    Called("query") =>
        /\ coll = prev
        /\ last.where = None =>
            LET s == Max(last.skip, 0)
                l == Max(last.limit, 0)
                rest == Max(Len(prev) - s, 0)
                n == IF l = 0 THEN rest ELSE Min(l, rest)
                natural == ~Truthy(last.sort)
            IN /\ ~Raised
               /\ Len(last.out.items) = n
               /\ \E ord \in Perms(Len(prev)) :
                    /\ natural => \A i \in 1..Len(prev) : ord[i] = i
                    /\ ~natural => \A i \in 1..(Len(prev) - 1) :
                            InOrder(prev[ord[i]], prev[ord[i + 1]], last.sort.items)
                    /\ \A i \in 1..n :
                            last.out.items[i] = Project(prev[ord[s + i]], last.select)

C10_Witness ==
    /\ Called("query")
    /\ last.where = None
    /\ last.sort = None
    /\ last.select = None
    /\ last.skip = 1
    /\ last.limit < 0
    /\ Len(prev) = 2
    /\ last.out = List(<<prev[2]>>)
====
